---- MODULE Spec2Model ----
(***************************************************************************)
(* A model of trackable::error (src/src/error.rs): TrackableError<K> with  *)
(* its kind, optional shared cause and history, the ErrorKindExt           *)
(* constructors, takes_over, derive(Clone), concrete_cause, Display and    *)
(* the serde implementation of Cause.  A small program holds values in     *)
(* two variables and applies the operations to them; the causes live in    *)
(* a heap of reference-counted cells (Arc<BoxError>).                      *)
(*                                                                         *)
(* History, Location, the track operation and the Trackable implementation *)
(* for Result live in the crate's lib.rs; they are modelled from the       *)
(* specification text and marked so where they are defined.                *)
(***************************************************************************)
EXTENDS Naturals, Sequences, FiniteSets, TLC

VARIABLES
    slots,      \* the program's variables: slot -> Empty | Error(e) | Ok(v) | Err(e)
    heap,       \* cause cells: ptr -> [st, strong, val]
    last,       \* the operation that produced this state, with its arguments
    gBase,      \* ghost: slot -> the value's history at its last construct/clone/takes_over/deserialize
    gTracked,   \* ghost: slot -> the locations of the track calls made on the value since then
    gFam,       \* ghost: slot -> id of the clone event the value last took part in (0: none)
    gGiven      \* ghost: ptr -> concrete type of the value that was given as the cause

vars == <<slots, heap, last, gBase, gTracked, gFam, gGiven>>

----------------------------------------------------------------------------
(* Bounds of the model. *)
MaxHist == 2
MaxCauses == 2

(* The program's two variables, as in the clone example: an error e and a  *)
(* second value f made from it or beside it.                               *)
Slots == {"e", "f"}
Ptrs == 1..MaxCauses

----------------------------------------------------------------------------
(* Option<T> *)
None == [some |-> FALSE]
Some(x) == [some |-> TRUE, val |-> x]

(* Kinds: values of types implementing ErrorKind. *)
Critical == [ty |-> "MyErrorKind", name |-> "Critical"]
PlainText == [ty |-> "String", name |-> "disk full"]
Kinds == {Critical, PlainText}

(* ErrorKind::display, default implementation: write!(f, "{:?}", self).    *)
(* The Debug form of a unit variant is its name; of a String, the text in  *)
(* double quotes.                                                          *)
KindDisplay(k) ==
    IF k.ty = "String" THEN "\"" \o k.name \o "\"" ELSE k.name

(* Values a caller hands to cause(): anything that is Into<BoxError>.      *)
CauseInputs ==
    { [ty |-> "str", text |-> "something wrong"],
      [ty |-> "IoError", text |-> "entity not found"] }

(* The type std boxes a str or String as when it is turned into a BoxError *)
TextualFallback == "StringError"

(* cause.into(): a str or String becomes std's private string error, an    *)
(* error value is boxed as it is.                                          *)
IntoBoxError(c) ==
    IF c.ty \in {"str", "String"}
    THEN [ty |-> TextualFallback, text |-> c.text]
    ELSE [ty |-> c.ty, text |-> c.text]

(* Types T a concrete_cause::<T>() may be asked for. *)
Types == {"IoError", "FmtError", TextualFallback}

(* to_string() of a boxed error: its Display text. *)
BoxToString(b) == b.text

----------------------------------------------------------------------------
(* Arc<BoxError>: the cells of the heap. *)
NoBox == [ty |-> "", text |-> ""]
FreeCell == [st |-> "free", strong |-> 0, val |-> NoBox]

FreePtrs(h) == {p \in Ptrs : h[p].st = "free"}
FreshPtr(h) == CHOOSE p \in FreePtrs(h) : \A q \in FreePtrs(h) : p <= q

ArcNew(h, b) ==
    [ptr |-> FreshPtr(h),
     heap |-> [h EXCEPT ![FreshPtr(h)] = [st |-> "live", strong |-> 1, val |-> b]]]

(* A clone that does not count the new reference. *)
ArcClone_uncounted(h, p) == h

ArcClone(h, p) == [h EXCEPT ![p].strong = @ + 1]

ArcDrop(h, p) ==
    IF h[p].strong = 1
    THEN [h EXCEPT ![p] = FreeCell]
    ELSE [h EXCEPT ![p].strong = @ - 1]

----------------------------------------------------------------------------
(* Location and History<Location> (lib.rs, modelled from the specification) *)
Location(file, line, message) == [file |-> file, line |-> line, message |-> message]

HistoryNew == << >>

HistoryAdd(h, event) == Append(h, event)

(* The call sites of the program: the two track! calls of test::it_works. *)
CallSites ==
    { Location("src/error.rs", 439, None),
      Location("src/error.rs", 440, Some("I passed here")) }

----------------------------------------------------------------------------
(* TrackableError<K> *)

from_kind(kind) == [kind |-> kind, cause |-> None, history |-> HistoryNew]

(* A constructor that forgets the cause. *)
new_without_cause(kind, cause, h) ==
    [err |-> [kind |-> kind, cause |-> None, history |-> HistoryNew], heap |-> h]

new(kind, cause, h) ==
    LET a == ArcNew(h, IntoBoxError(cause))
    IN  [err |-> [kind |-> kind, cause |-> Some(a.ptr), history |-> HistoryNew],
         heap |-> a.heap]

(* ErrorKindExt *)
error(self) == from_kind(self)

cause(self, c, h) == new(self, c, h)

(* A takes_over that starts a fresh history. *)
takes_over_fresh(self, from) ==
    [kind |-> self, cause |-> from.cause, history |-> HistoryNew]

takes_over(self, from) ==
    [kind |-> self, cause |-> from.cause, history |-> from.history]

kind(e) == e.kind

(* A downcast that does not check the type. *)
concrete_cause_unchecked(e, T, h) ==
    IF e.cause.some THEN Some(e.cause.val) ELSE None

concrete_cause(e, T, h) ==
    IF e.cause.some /\ h[e.cause.val].val.ty = T THEN Some(e.cause.val) ELSE None

(* impl Trackable for TrackableError *)
history(e) == Some(e.history)

(* The Trackable default: no writable history. *)
history_mut_unsupported(e) == None

history_mut(e) == Some(e.history)

(* A write that rebuilds the error around the history and loses the cause. *)
StoreHistory_rebuilt(e, h) == [kind |-> e.kind, cause |-> None, history |-> h]

(* The write through the &mut History that history_mut hands out. *)
StoreHistory(e, h) == [e EXCEPT !.history = h]

(* impl Error for TrackableError: cause() *)
Error_cause(e, h) == IF e.cause.some THEN Some(h[e.cause.val].val) ELSE None

(* A clone that does not copy the history. *)
CloneError_empty(e, h) ==
    [err |-> [kind |-> e.kind, cause |-> e.cause, history |-> HistoryNew],
     heap |-> IF e.cause.some THEN ArcClone(h, e.cause.val) ELSE h]

(* derive(Clone): the kind and the history are copied, the Arc is cloned. *)
CloneError(e, h) ==
    [err |-> [kind |-> e.kind, cause |-> e.cause, history |-> e.history],
     heap |-> IF e.cause.some THEN ArcClone(h, e.cause.val) ELSE h]

(* Dropping an error drops its fields, the Arc among them. *)
DropError(e, h) == IF e.cause.some THEN ArcDrop(h, e.cause.val) ELSE h

----------------------------------------------------------------------------
(* Display of Location and History (lib.rs, modelled from the              *)
(* specification): a header line, then one line per event with its         *)
(* zero-based index.                                                       *)
LocationDisplay(l) ==
    "at " \o l.file \o ":" \o ToString(l.line)
          \o (IF l.message.some THEN " -- " \o l.message.val ELSE "")

RECURSIVE HistoryEvents(_, _)
HistoryEvents(h, i) ==
    IF i > Len(h) THEN ""
    ELSE "  [" \o ToString(i - 1) \o "] " \o LocationDisplay(h[i]) \o "\n"
              \o HistoryEvents(h, i + 1)

HistoryDisplay(h) == "HISTORY:\n" \o HistoryEvents(h, 1)

(* A Display that leaves the cause out. *)
fmt_without_cause(e, h) ==
    KindDisplay(e.kind) \o "\n" \o HistoryDisplay(e.history)

(* impl fmt::Display for TrackableError: the writes to f, in order. *)
fmt(e, h) ==
    LET f1 == KindDisplay(e.kind)
        f2 == IF e.cause.some
              THEN f1 \o " (cause; " \o BoxToString(h[e.cause.val].val) \o ")"
              ELSE f1
    IN  f2 \o "\n" \o HistoryDisplay(e.history)

----------------------------------------------------------------------------
(* serde (feature "serialize") *)

(* A Serialize that writes the type's name instead of the Display text. *)
CauseSerialize_type(p, h) == h[p].val.ty

(* impl Serialize for Cause: serialize_str(&self.0.to_string()) *)
CauseSerialize(p, h) == BoxToString(h[p].val)

(* impl Deserialize for Cause: a String, then Arc::new(s.into()) *)
CauseDeserialize(s, h) == ArcNew(h, IntoBoxError([ty |-> "String", text |-> s]))

(* Serialize and Deserialize of Location and History (lib.rs, modelled     *)
(* from the specification): each event as the tuple of its fields, an      *)
(* absent message as the empty tuple.                                      *)
HistorySerialize(h) ==
    [i \in 1..Len(h) |->
        <<h[i].file, h[i].line, IF h[i].message.some THEN <<h[i].message.val>> ELSE << >> >>]

HistoryDeserialize(d) ==
    [i \in 1..Len(d) |->
        Location(d[i][1], d[i][2], IF Len(d[i][3]) = 0 THEN None ELSE Some(d[i][3][1]))]

(* derive(Serialize, Deserialize) for TrackableError<K>: the three fields  *)
(* in order, each by its own implementation.                               *)
Serialize(e, h) ==
    [kind |-> <<e.kind.ty, e.kind.name>>,
     cause |-> IF e.cause.some THEN <<CauseSerialize(e.cause.val, h)>> ELSE << >>,
     history |-> HistorySerialize(e.history)]

Deserialize(d, h) ==
    LET k == [ty |-> d.kind[1], name |-> d.kind[2]]
        hist == HistoryDeserialize(d.history)
    IN  IF Len(d.cause) = 0
        THEN [err |-> [kind |-> k, cause |-> None, history |-> hist], heap |-> h]
        ELSE LET a == CauseDeserialize(d.cause[1], h)
             IN  [err |-> [kind |-> k, cause |-> Some(a.ptr), history |-> hist],
                  heap |-> a.heap]

----------------------------------------------------------------------------
(* Values of the program's variables. *)
Empty == [tag |-> "Empty"]
Error(e) == [tag |-> "Error", err |-> e]
Ok(v) == [tag |-> "Ok", val |-> v]
Err(e) == [tag |-> "Err", err |-> e]
OkVals == {"file1", "file2"}

HasErr(v) == v.tag \in {"Error", "Err"}

(* A Result that exposes no history in either branch. *)
ResultHistoryMut_unsupported(v) == None

(* impl Trackable for Result<T, E> (lib.rs, modelled from the              *)
(* specification): only the error branch exposes a history.                *)
ResultHistoryMut(v) == IF v.tag = "Err" THEN history_mut(v.err) ELSE None

TrackableHistoryMut(v) ==
    IF v.tag = "Error" THEN history_mut(v.err) ELSE ResultHistoryMut(v)

(* Trackable::track behind track! (lib.rs, modelled from the               *)
(* specification): append the location when a writable history exists,     *)
(* and hand the value back.                                                *)
track(v, location) ==
    LET hm == TrackableHistoryMut(v)
    IN  IF hm.some
        THEN [v EXCEPT !.err = StoreHistory(v.err, HistoryAdd(hm.val, location))]
        ELSE v

----------------------------------------------------------------------------
Init ==
    /\ slots = [s \in Slots |-> Empty]
    /\ heap = [p \in Ptrs |-> FreeCell]
    /\ last = [op |-> "init"]
    /\ gBase = [s \in Slots |-> << >>]
    /\ gTracked = [s \in Slots |-> << >>]
    /\ gFam = [s \in Slots |-> 0]
    /\ gGiven = [p \in Ptrs |-> ""]

(* let e = k.error(); *)
DoError(s, k) ==
    /\ slots[s] = Empty
    /\ slots' = [slots EXCEPT ![s] = Error(error(k))]
    /\ last' = [op |-> "error", dst |-> s, kind |-> k]
    /\ gBase' = [gBase EXCEPT ![s] = << >>]
    /\ gTracked' = [gTracked EXCEPT ![s] = << >>]
    /\ gFam' = [gFam EXCEPT ![s] = 0]
    /\ UNCHANGED <<heap, gGiven>>

(* let e = k.cause(c); *)
DoCause(s, k, c) ==
    /\ slots[s] = Empty
    /\ FreePtrs(heap) # {}
    /\ LET r == cause(k, c, heap)
       IN  /\ slots' = [slots EXCEPT ![s] = Error(r.err)]
           /\ heap' = r.heap
           /\ gGiven' = [gGiven EXCEPT ![FreshPtr(heap)] = c.ty]
    /\ last' = [op |-> "cause", dst |-> s, kind |-> k, given |-> c]
    /\ gBase' = [gBase EXCEPT ![s] = << >>]
    /\ gTracked' = [gTracked EXCEPT ![s] = << >>]
    /\ gFam' = [gFam EXCEPT ![s] = 0]

(* let e2 = k1.takes_over(e); the donor is moved out of its variable. *)
DoTakesOver(s, d, k1) ==
    /\ slots[s].tag = "Error"
    /\ d = s \/ slots[d] = Empty
    /\ slots' = [[slots EXCEPT ![s] = Empty] EXCEPT ![d] = Error(takes_over(k1, slots[s].err))]
    /\ last' = [op |-> "takes_over", src |-> s, dst |-> d, kind |-> k1,
                 from |-> kind(slots[s].err)]
    /\ gBase' = [[gBase EXCEPT ![s] = << >>] EXCEPT ![d] = gBase[s]]
    /\ gTracked' = [[gTracked EXCEPT ![s] = << >>] EXCEPT ![d] = gTracked[s]]
    /\ gFam' = [[gFam EXCEPT ![s] = 0] EXCEPT ![d] = gFam[s]]
    /\ UNCHANGED <<heap, gGiven>>

(* let f = e.clone(); *)
FreshFam(f, s, t) ==
    CHOOSE n \in 1..Cardinality(Slots) : \A u \in Slots \ {s, t} : f[u] # n

DoClone(s, t) ==
    /\ slots[s].tag = "Error"
    /\ slots[t] = Empty
    /\ LET r == CloneError(slots[s].err, heap)
       IN  /\ slots' = [slots EXCEPT ![t] = Error(r.err)]
           /\ heap' = r.heap
    /\ last' = [op |-> "clone", src |-> s, dst |-> t]
    /\ gBase' = [[gBase EXCEPT ![s] = slots[s].err.history] EXCEPT ![t] = slots[s].err.history]
    /\ gTracked' = [[gTracked EXCEPT ![s] = << >>] EXCEPT ![t] = << >>]
    /\ gFam' = [[gFam EXCEPT ![s] = FreshFam(gFam, s, t)] EXCEPT ![t] = FreshFam(gFam, s, t)]
    /\ UNCHANGED gGiven

(* let v = track!(v) or track!(v, "message") at one of the call sites. *)
DoTrack(s, location) ==
    /\ slots[s] # Empty
    /\ HasErr(slots[s]) => Len(slots[s].err.history) < MaxHist
    /\ slots' = [slots EXCEPT ![s] = track(slots[s], location)]
    /\ last' = [op |-> "track", src |-> s, dst |-> s, location |-> location]
    /\ gTracked' = [gTracked EXCEPT ![s] =
                        IF HasErr(slots[s]) THEN Append(@, location) ELSE @]
    /\ UNCHANGED <<heap, gBase, gFam, gGiven>>

(* The value of a variable goes out of scope. *)
DoDrop(s) ==
    /\ slots[s] # Empty
    /\ slots' = [slots EXCEPT ![s] = Empty]
    /\ heap' = IF HasErr(slots[s]) THEN DropError(slots[s].err, heap) ELSE heap
    /\ last' = [op |-> "drop", src |-> s, dst |-> s]
    /\ gBase' = [gBase EXCEPT ![s] = << >>]
    /\ gTracked' = [gTracked EXCEPT ![s] = << >>]
    /\ gFam' = [gFam EXCEPT ![s] = 0]
    /\ gGiven' = [p \in Ptrs |-> IF heap'[p].st = "free" THEN "" ELSE gGiven[p]]

(* Ok(f): a Result in its success branch. *)
DoOk(s, v) ==
    /\ slots[s] = Empty
    /\ slots' = [slots EXCEPT ![s] = Ok(v)]
    /\ last' = [op |-> "ok", dst |-> s]
    /\ UNCHANGED <<heap, gBase, gTracked, gFam, gGiven>>

(* Err(e): the error becomes the failure branch of a Result. *)
DoWrapErr(s) ==
    /\ slots[s].tag = "Error"
    /\ slots' = [slots EXCEPT ![s] = Err(slots[s].err)]
    /\ last' = [op |-> "wrap", src |-> s, dst |-> s]
    /\ UNCHANGED <<heap, gBase, gTracked, gFam, gGiven>>

(* result.err().unwrap() *)
DoUnwrapErr(s) ==
    /\ slots[s].tag = "Err"
    /\ slots' = [slots EXCEPT ![s] = Error(slots[s].err)]
    /\ last' = [op |-> "unwrap", src |-> s, dst |-> s]
    /\ UNCHANGED <<heap, gBase, gTracked, gFam, gGiven>>

(* let f = deserialize(serialize(&e)); *)
DoSerde(s, t) ==
    /\ slots[s].tag = "Error"
    /\ slots[t] = Empty
    /\ slots[s].err.cause.some => FreePtrs(heap) # {}
    /\ LET r == Deserialize(Serialize(slots[s].err, heap), heap)
       IN  /\ slots' = [slots EXCEPT ![t] = Error(r.err)]
           /\ heap' = r.heap
           /\ gGiven' = IF r.err.cause.some
                        THEN [gGiven EXCEPT ![r.err.cause.val] = "String"]
                        ELSE gGiven
           /\ gBase' = [gBase EXCEPT ![t] = r.err.history]
    /\ last' = [op |-> "serde", src |-> s, dst |-> t]
    /\ gTracked' = [gTracked EXCEPT ![t] = << >>]
    /\ gFam' = [gFam EXCEPT ![t] = 0]

(* The core operations on errors. *)
Next ==
    \/ \E s \in Slots, k \in Kinds : DoError(s, k)
    \/ \E s \in Slots, k \in Kinds, c \in CauseInputs : DoCause(s, k, c)
    \/ \E s \in Slots, d \in Slots, k \in Kinds : DoTakesOver(s, d, k)
    \/ \E s \in Slots, t \in Slots : DoClone(s, t)
    \/ \E s \in Slots, l \in CallSites : DoTrack(s, l)
    \/ \E s \in Slots : DoDrop(s)

Spec == Init /\ [][Next]_vars

(* Errors and Results, tracked: the second half of test::it_works. *)
NextResult ==
    \/ \E s \in Slots, k \in Kinds : DoError(s, k)
    \/ \E s \in Slots, k \in Kinds, c \in CauseInputs : DoCause(s, k, c)
    \/ \E s \in Slots, l \in CallSites : DoTrack(s, l)
    \/ \E s \in Slots : DoDrop(s)
    \/ \E s \in Slots, v \in OkVals : DoOk(s, v)
    \/ \E s \in Slots : DoWrapErr(s)
    \/ \E s \in Slots : DoUnwrapErr(s)

SpecResult == Init /\ [][NextResult]_vars

(* Errors written out and read back (feature "serialize"). *)
NextSerde ==
    \/ \E s \in Slots, k \in Kinds : DoError(s, k)
    \/ \E s \in Slots, k \in Kinds, c \in CauseInputs : DoCause(s, k, c)
    \/ \E s \in Slots, l \in CallSites : DoTrack(s, l)
    \/ \E s \in Slots, t \in Slots : DoSerde(s, t)
    \/ \E s \in Slots : DoDrop(s)

SpecSerde == Init /\ [][NextSerde]_vars
----------------------------------------------------------------------------
(* Properties. *)

ErrorOf(s) == slots[s].err
ErrorSlots == {s \in Slots : slots[s].tag = "Error"}

(* C1: k1.takes_over(d) yields an error of kind k1 with the donor's cause  *)
(* (the same cell, absent if the donor had none) and exactly the donor's   *)
(* history: same length, same entries, nothing appended; the result has    *)
(* the three fields of a TrackableError and none that holds the donor's    *)
(* kind.                                                                   *)
C1_TakesOverStep ==
    last'.op = "takes_over" =>
        LET d == slots[last'.src].err
            r == slots'[last'.dst]
        IN  /\ r.tag = "Error"
            /\ DOMAIN r.err = {"kind", "cause", "history"}
            /\ kind(r.err) = last'.kind
            /\ r.err.cause = d.cause
            /\ d.cause.some => heap'[d.cause.val] = heap[d.cause.val]
            /\ Len(r.err.history) = Len(d.history)
            /\ \A i \in 1..Len(d.history) : r.err.history[i] = d.history[i]

C1_TakesOver == [][C1_TakesOverStep]_vars

C1_Witness ==
    /\ last.op = "takes_over"
    /\ last.from # last.kind
    /\ ErrorOf(last.dst).cause.some
    /\ Len(ErrorOf(last.dst).history) = MaxHist

(* C2: after n track calls on an error its history is what it was before   *)
(* followed by the n locations of those calls in call order: the length    *)
(* grows by n, the earlier entries keep their positions.                   *)
C2_TrackMonotonic ==
    \A s \in Slots :
        HasErr(slots[s]) =>
            LET h == ErrorOf(s).history
                b == gBase[s]
                n == Len(gTracked[s])
            IN  /\ Len(h) = Len(b) + n
                /\ \A i \in 1..Len(b) : h[i] = b[i]
                /\ \A j \in 1..n : h[Len(b) + j] = gTracked[s][j]

C2_Witness ==
    \E s \in ErrorSlots :
        /\ Len(gTracked[s]) = MaxHist
        /\ gTracked[s][1] # gTracked[s][MaxHist]

(* C3: two errors related by a clone have the same history at the clone    *)
(* point, and afterwards each history is that common prefix followed by    *)
(* exactly the locations tracked on that instance.                         *)
C3_CloneThenDiverge ==
    \A s \in Slots, t \in Slots :
        (s # t /\ gFam[s] # 0 /\ gFam[s] = gFam[t]) =>
            /\ HasErr(slots[s]) /\ HasErr(slots[t])
            /\ gBase[s] = gBase[t]
            /\ ErrorOf(s).history = gBase[s] \o gTracked[s]
            /\ ErrorOf(t).history = gBase[t] \o gTracked[t]

C3_Witness ==
    \E s \in Slots, t \in Slots :
        /\ s # t /\ gFam[s] # 0 /\ gFam[s] = gFam[t]
        /\ Len(ErrorOf(s).history) = 1
        /\ Len(ErrorOf(t).history) = 2
        /\ ErrorOf(t).history[1] = ErrorOf(s).history[1]
        /\ gTracked[s] = << >>

(* C4: concrete_cause::<T>() is present iff the error has a cause and the  *)
(* value given as the cause had exactly the type T, then referring to the  *)
(* cause itself; otherwise it is absent.  track, clone and takes_over      *)
(* leave the answer as it was.  T ranges over the error types a caller     *)
(* can name.                                                               *)
NameableTypes == Types \ {TextualFallback}

C4_Answer ==
    \A s \in ErrorSlots, T \in NameableTypes :
        LET e == ErrorOf(s)
            a == concrete_cause(e, T, heap)
        IN  /\ a.some <=> (e.cause.some /\ gGiven[e.cause.val] = T)
            /\ a.some => a.val = e.cause.val

C4_StableStep ==
    last'.op \in {"track", "clone", "takes_over"} =>
        (slots[last'.src].tag = "Error" =>
            \A T \in NameableTypes :
                /\ concrete_cause(slots'[last'.dst].err, T, heap')
                       = concrete_cause(slots[last'.src].err, T, heap)
                /\ last'.op = "clone" =>
                       concrete_cause(slots'[last'.src].err, T, heap')
                           = concrete_cause(slots[last'.src].err, T, heap))

C4_ConcreteCause == []C4_Answer /\ [][C4_StableStep]_vars

C4_Witness ==
    /\ last.op = "takes_over"
    /\ concrete_cause(ErrorOf(last.dst), "IoError", heap).some
    /\ ~ concrete_cause(ErrorOf(last.dst), "FmtError", heap).some
    /\ Len(ErrorOf(last.dst).history) >= 1

(* C5: k.cause(c) is an error of kind k whose cause is present and is c    *)
(* and whose history is empty; k.error() is an error of kind k with no     *)
(* cause and an empty history.  Both always produce an error.              *)
C5_ConstructStep ==
    /\ last'.op = "cause" =>
          LET r == slots'[last'.dst]
          IN  /\ r.tag = "Error"
              /\ kind(r.err) = last'.kind
              /\ r.err.cause.some
              /\ Error_cause(r.err, heap').some
              /\ BoxToString(Error_cause(r.err, heap').val) = last'.given.text
              /\ gGiven'[r.err.cause.val] = last'.given.ty
              /\ heap[r.err.cause.val].st = "free"
              /\ heap'[r.err.cause.val].strong = 1
              /\ history(r.err) = Some(<< >>)
    /\ last'.op = "error" =>
          LET r == slots'[last'.dst]
          IN  /\ r.tag = "Error"
              /\ kind(r.err) = last'.kind
              /\ ~ r.err.cause.some
              /\ ~ Error_cause(r.err, heap').some
              /\ history(r.err) = Some(<< >>)
              /\ heap' = heap

C5_Construct == [][C5_ConstructStep]_vars

C5_Witness ==
    /\ last.op = "cause"
    /\ kind(ErrorOf(last.dst)) = PlainText
    /\ last.given.ty = "IoError"
    /\ \E s \in ErrorSlots : s # last.dst /\ ~ ErrorOf(s).cause.some

(* C6: Display is the kind's rendering, then " (cause; <text>)" iff a      *)
(* cause is present, then a newline, then the history block with every     *)
(* entry once, in insertion order, indexed from zero.  The error of        *)
(* test::it_works renders as the text the test expects.                    *)
C6_Entry(h, i) ==
    "  [" \o ToString(i - 1) \o "] at " \o h[i].file \o ":" \o ToString(h[i].line)
          \o (IF h[i].message = None THEN "" ELSE " -- " \o h[i].message.val)
          \o "\n"

RECURSIVE C6_Entries(_, _)
C6_Entries(h, n) == IF n = 0 THEN "" ELSE C6_Entries(h, n - 1) \o C6_Entry(h, n)

C6_ItWorksText ==
    "Critical (cause; something wrong)\nHISTORY:\n  [0] at src/error.rs:439\n  [1] at src/error.rs:440 -- I passed here\n"

C6_IsItWorks(e) ==
    /\ e.kind = Critical
    /\ e.cause.some
    /\ heap[e.cause.val].val.text = "something wrong"
    /\ e.history = << Location("src/error.rs", 439, None),
                      Location("src/error.rs", 440, Some("I passed here")) >>

C6_Display ==
    \A s \in ErrorSlots :
        LET e == ErrorOf(s)
            k == IF e.kind.ty = "String" THEN "\"" \o e.kind.name \o "\"" ELSE e.kind.name
            c == IF e.cause = None THEN ""
                 ELSE " (cause; " \o heap[e.cause.val].val.text \o ")"
        IN  /\ fmt(e, heap) = k \o c \o "\nHISTORY:\n" \o C6_Entries(e.history, Len(e.history))
            /\ C6_IsItWorks(e) => fmt(e, heap) = C6_ItWorksText

C6_Witness == \E s \in ErrorSlots : C6_IsItWorks(ErrorOf(s))

(* C7: tracking a Result in its success branch gives back the same value   *)
(* and appends to no history; tracking a value in its error branch appends *)
(* the location to that value's history and to no other.                   *)
C7_TrackResultStep ==
    last'.op = "track" =>
        LET s == last'.src
        IN  /\ \A u \in Slots \ {s} : slots'[u] = slots[u]
            /\ heap' = heap
            /\ slots[s].tag = "Ok" => slots'[s] = slots[s]
            /\ slots[s].tag = "Err" =>
                  /\ slots'[s].tag = "Err"
                  /\ slots'[s].err.history = Append(slots[s].err.history, last'.location)

C7_TrackResult == [][C7_TrackResultStep]_vars

C7_Witness ==
    /\ last.op = "track"
    /\ slots[last.src].tag = "Ok"
    /\ \E u \in Slots : slots[u].tag = "Err" /\ Len(slots[u].err.history) >= 1

(* C8: a track call on an error changes its history and nothing else: the  *)
(* kind, the presence of the cause, the cause cell and the type of the     *)
(* value in it are as before, and no other value changes.                  *)
C8_TrackAdditiveStep ==
    (last'.op = "track" /\ slots[last'.src].tag = "Error") =>
        LET s == last'.src
            e == slots[s].err
            r == slots'[s]
        IN  /\ r.tag = "Error"
            /\ kind(r.err) = kind(e)
            /\ r.err.cause.some = e.cause.some
            /\ r.err.cause = e.cause
            /\ e.cause.some => heap'[e.cause.val] = heap[e.cause.val]
            /\ gGiven' = gGiven
            /\ \A u \in Slots \ {s} : slots'[u] = slots[u]

C8_TrackAdditive == [][C8_TrackAdditiveStep]_vars

C8_Witness ==
    /\ last.op = "track"
    /\ slots[last.src].tag = "Error"
    /\ ErrorOf(last.src).cause.some
    /\ Len(ErrorOf(last.src).history) = MaxHist

(* C9: an error written out and read back has the same kind and history, a *)
(* cause iff the original had one, with the same Display text but of the   *)
(* textual fallback type: concrete_cause is absent for every other type.   *)
(* Reading back an error that was itself read back changes nothing more.   *)
C9_Observable(e, h) ==
    [kind |-> e.kind, history |-> e.history,
     cause |-> IF e.cause.some
               THEN <<h[e.cause.val].val.ty, BoxToString(h[e.cause.val].val)>>
               ELSE << >>]

C9_RoundTripStep ==
    last'.op = "serde" =>
        LET e == slots[last'.src].err
            r == slots'[last'.dst]
            f == r.err
        IN  /\ r.tag = "Error"
            /\ slots'[last'.src] = slots[last'.src]
            /\ kind(f) = kind(e)
            /\ f.history = e.history
            /\ f.cause.some <=> e.cause.some
            /\ e.cause.some =>
                  /\ f.cause.val # e.cause.val
                  /\ heap'[e.cause.val] = heap[e.cause.val]
                  /\ heap'[f.cause.val].strong = 1
                  /\ BoxToString(heap'[f.cause.val].val) = BoxToString(heap[e.cause.val].val)
                  /\ heap'[f.cause.val].val.ty = TextualFallback
                  /\ concrete_cause(f, TextualFallback, heap').some
                  /\ \A T \in NameableTypes : ~ concrete_cause(f, T, heap').some
                  /\ gGiven[e.cause.val] = "String" =>
                        C9_Observable(f, heap') = C9_Observable(e, heap)
            /\ ~ e.cause.some => C9_Observable(f, heap') = C9_Observable(e, heap)

C9_RoundTrip == [][C9_RoundTripStep]_vars

C9_Witness ==
    /\ last.op = "serde"
    /\ ErrorOf(last.src).cause.some
    /\ gGiven[ErrorOf(last.src).cause.val] = "String"
    /\ BoxToString(heap[ErrorOf(last.dst).cause.val].val) = "entity not found"
    /\ Len(ErrorOf(last.dst).history) = MaxHist

(* C10: the count of references of a cause cell is the number of live      *)
(* errors that hold it; a cell is live exactly while some error holds it,  *)
(* so no error refers to a reclaimed cell; an error and its clone hold the *)
(* same cell; takes_over leaves every count as it was.                     *)
Holders(p) ==
    {s \in Slots : HasErr(slots[s]) /\ ErrorOf(s).cause = Some(p)}

C10_Counts ==
    /\ \A p \in Ptrs :
          /\ heap[p].strong = Cardinality(Holders(p))
          /\ heap[p].st = "live" <=> Holders(p) # {}
          /\ heap[p].st = "free" => heap[p] = FreeCell
    /\ \A s \in Slots :
          (HasErr(slots[s]) /\ ErrorOf(s).cause.some) =>
              heap[ErrorOf(s).cause.val].st = "live"
    /\ \A s \in Slots, t \in Slots :
          (s # t /\ gFam[s] # 0 /\ gFam[s] = gFam[t]) =>
              ErrorOf(s).cause = ErrorOf(t).cause

C10_MoveStep ==
    /\ last'.op = "takes_over" => heap' = heap
    /\ last'.op = "clone" =>
          /\ slots'[last'.dst].err.cause = slots[last'.src].err.cause
          /\ \A p \in Ptrs :
                heap'[p].strong = heap[p].strong
                    + (IF slots[last'.src].err.cause = Some(p) THEN 1 ELSE 0)
    /\ last'.op = "drop" =>
          \A p \in Ptrs :
              (heap[p].st = "live" /\ heap'[p].st = "free")
                  <=> (heap[p].strong = 1 /\ HasErr(slots[last'.src])
                          /\ slots[last'.src].err.cause = Some(p))

C10_SharedCause == []C10_Counts /\ [][C10_MoveStep]_vars

C10_Witness ==
    /\ last.op = "drop"
    /\ \E s \in ErrorSlots :
          /\ gFam[s] # 0
          /\ ErrorOf(s).cause.some
          /\ heap[ErrorOf(s).cause.val].strong = 1
          /\ Len(gTracked[s]) >= 1
====
